---- MODULE Spec2Model ----
(***************************************************************************)
(* Model of the Redis Sentinel test scripts:                               *)
(*   src/test-sentinel-scenarios.py  (SentinelScenarioTester, main)        *)
(*   src/test-sentinel-cluster.py    (RedisSentinelClusterTester)          *)
(*                                                                         *)
(* The scripts are single-threaded.  A scenario is a straight-line piece   *)
(* of code with nested try/except blocks; every call to a collaborator     *)
(* (a redis client call, a `docker` subprocess) either returns or raises.  *)
(* One action models one collaborator call together with the local code    *)
(* that follows it up to the next call.  A program position is named by    *)
(* the scenario prefix and the source line of the call it is about to make *)
(* ("mf190" = test_master_failure, line 190).                              *)
(***************************************************************************)
EXTENDS Integers, Sequences, FiniteSets, TLC

VARIABLES
    script,           \* the script that runs: "scenarios" or "cluster"
    argv,             \* sys.argv[1].lower(), the scenario selected (main, line 538)
    pc,               \* position of the single thread of control
    cmds,             \* docker commands run so far, in order: [op, target, ok]
    writes,           \* successful SET commands so far, in order: [node, key]
    log,              \* tags of the self.log()/print messages emitted, in order
    ret,              \* return value of the scenario function: "NONE" until it returns
    raisedAt,         \* positions whose collaborator call raised an Exception
    masters,          \* reply of SENTINEL masters read by the scenario / check
    new_master_addr,  \* reply of SENTINEL get-master-addr-by-name (line 213)
    new_master_role,  \* role the node at new_master_addr reports about itself
    pings,            \* <<sentinel2_ping, sentinel3_ping>> (lines 278-279)
    health,           \* <<>> until check_cluster_health returns, then <<its result>>
    interrupted,      \* a KeyboardInterrupt reached main (line 555)
    exitCode,         \* argument of sys.exit: -1 while the process runs
    master_info,      \* <<>> or <<the dictionary test_master_monitoring returns>>
    slaves_reply,     \* reply of SENTINEL slaves mymaster (cluster script, line 198)
    slaves_info,      \* the list test_slave_monitoring returns
    sentinels_reply,  \* reply of SENTINEL sentinels mymaster (cluster script, line 272)
    sentinels_info,   \* the list test_sentinel_cluster_communication returns
    info,             \* <<>> or <<master.info('replication')>> (cluster script, line 340)
    results           \* outcomes recorded so far by run_all_scenarios / run_all_tests

vars == <<script, argv, pc, cmds, writes, log, ret, raisedAt, masters, new_master_addr,
          new_master_role, pings, health, interrupted, exitCode, master_info,
          slaves_reply, slaves_info, sentinels_reply, sentinels_info, info, results>>

(***************************************************************************)
(* Bounds of the replies the environment may give.                         *)
(***************************************************************************)
MaxQuorum == 5
MaxKnown == 5
MaxSlaves == 2
MaxRecords == 3

(* test_stress_scenario: the number of operations and the pass rate in %   *)
StressOps == 10
StressThreshold == 80

(***************************************************************************)
(* Tokens.  Replies are flat sequences of strings.  A numeric token is a   *)
(* decimal digit string; int() is its inverse and raises ValueError on     *)
(* anything else.                                                          *)
(***************************************************************************)
Digits == <<"0", "1", "2", "3", "4", "5", "6", "7", "8", "9">>

Str(n) == Digits[n + 1]

(* The port numbers of the replies: 6379 for the master, the next ones for *)
(* the nodes of a list reply.                                              *)
PortTokens == <<"6379", "6380", "6381", "6382", "6383">>

IsDigit(s) == \E n \in 0..9 : Digits[n + 1] = s

IsInt(s) == IsDigit(s) \/ \E n \in 1..Len(PortTokens) : PortTokens[n] = s

Int0(s) ==
    IF IsDigit(s)
      THEN CHOOSE n \in 0..9 : Digits[n + 1] = s
      ELSE 6378 + CHOOSE n \in 1..Len(PortTokens) : PortTokens[n] = s

(* The flags strings a monitor reports, with the tokens each contains.     *)
FlagTokens ==
    [f \in {"master", "s_down,master", "s_down,o_down,master", "slave", ""} |->
        CASE f = "master" -> {"master"}
          [] f = "s_down,master" -> {"s_down", "master"}
          [] f = "s_down,o_down,master" -> {"s_down", "o_down", "master"}
          [] f = "slave" -> {"slave"}
          [] OTHER -> {}]

(* Python `sub in s` for a flag token sub and a flags string s.            *)
Contains(sub, s) == sub \in FlagTokens[s]

(***************************************************************************)
(* Flat reply -> dictionary (the loop `for i in range(0, len(masters), 2): *)
(* if i + 1 < len(masters): master_dict[masters[i]] = masters[i + 1]`).    *)
(* Positions are 1-based here: keys sit at odd positions; a later          *)
(* occurrence of a key overwrites an earlier one; a dangling key is        *)
(* skipped.                                                                *)
(***************************************************************************)
KeyPositions(reply) == {i \in 1..Len(reply) : i % 2 = 1 /\ i + 1 <= Len(reply)}

DictKeys(reply) == {reply[i] : i \in KeyPositions(reply)}

LastPos(reply, k) ==
    CHOOSE i \in KeyPositions(reply) :
        /\ reply[i] = k
        /\ \A j \in KeyPositions(reply) : reply[j] = k => j <= i

ToDict(reply) == [k \in DictKeys(reply) |-> reply[LastPos(reply, k) + 1]]

(* dict.get(key, default)                                                  *)
Get(d, k, default) == IF k \in DOMAIN d THEN d[k] ELSE default

(***************************************************************************)
(* What the environment may answer.                                        *)
(***************************************************************************)
NumTokens == {Str(n) : n \in 0..MaxKnown}

QuorumTokens == {Str(n) : n \in 1..MaxQuorum} \cup {"x"}

FieldOpt(k, vals) == {<<>>} \cup {<<k, v>> : v \in vals}

(* SENTINEL masters: empty, or one master's fields as the scripts read     *)
(* them, any of them possibly missing.                                     *)
MastersReplies ==
    {<<>>} \cup
    {<<"name", "mymaster">> \o f \o n \o q :
        f \in FieldOpt("flags", {"master", "s_down,master", "s_down,o_down,master"}),
        n \in FieldOpt("num-other-sentinels", NumTokens),
        q \in FieldOpt("quorum", QuorumTokens)}

(* The same replies, and each of them cut after a further key.             *)
CutMastersReplies ==
    MastersReplies \cup {r \o <<k>> : r \in MastersReplies, k \in {"quorum", "ip"}}

(* SENTINEL get-master-addr-by-name mymaster: nothing, or <<host, port>>.  *)
AddrReplies ==
    {<<>>, <<"redis-master", "6379">>, <<"redis-replica-1", "6379">>,
     <<"redis-replica-2", "6379">>, <<"172.18.0.4", "6379">>}

Roles == {"master", "slave"}

ScenarioArgs == {"failover", "partition", "recovery", "bogus"}

(***************************************************************************)
(* Helpers shared by the actions.                                          *)
(***************************************************************************)
obsVars == <<masters, new_master_addr, new_master_role, pings, health>>

mainVars == <<script, argv, interrupted, exitCode>>

(* the state of the check scripts and of the `all` run                     *)
checkVars ==
    <<master_info, slaves_reply, slaves_info, sentinels_reply, sentinels_info, info, results>>

RunCmd(op, target, ok) ==
    cmds' = Append(cmds, [op |-> op, target |-> target, ok |-> ok])

Emit(tags) == log' = log \o tags

Raise(at, handler, tags) ==
    /\ pc' = handler
    /\ raisedAt' = raisedAt \cup {at}
    /\ Emit(tags)

Return(v) ==
    /\ pc' = "returned"
    /\ ret' = v

(* subprocess.run([...], check=True) followed by more code of the block.   *)
DockerStep(at, op, target, next, handler, tags) ==
    /\ pc = at
    /\ \/ /\ RunCmd(op, target, TRUE)
          /\ pc' = next
          /\ UNCHANGED <<log, raisedAt>>
       \/ /\ RunCmd(op, target, FALSE)
          /\ Raise(at, handler, tags)
    /\ UNCHANGED <<ret, writes, obsVars, mainVars, checkVars>>

(* subprocess.run([...], check=True) followed by `return v`.               *)
DockerReturn(at, op, target, v, handler, tags) ==
    /\ pc = at
    /\ \/ /\ RunCmd(op, target, TRUE)
          /\ Return(v)
          /\ UNCHANGED <<log, raisedAt>>
       \/ /\ RunCmd(op, target, FALSE)
          /\ Raise(at, handler, tags)
          /\ UNCHANGED ret
    /\ UNCHANGED <<writes, obsVars, mainVars, checkVars>>

(* client.set(key, value) followed by more code of the block.              *)
WriteStep(at, node, key, next, okTags, handler, tags) ==
    /\ pc = at
    /\ \/ /\ writes' = Append(writes, [node |-> node, key |-> key])
          /\ pc' = next
          /\ Emit(okTags)
          /\ UNCHANGED raisedAt
       \/ /\ Raise(at, handler, tags)
          /\ UNCHANGED writes
    /\ UNCHANGED <<ret, cmds, obsVars, mainVars, checkVars>>

(***************************************************************************)
(* test_master_failure (lines 179-261).                                    *)
(***************************************************************************)
(* variant: only an objectively-down master counts as detected            *)
FlagsObjectivelyDown(flags) == Contains("o_down", flags)

(* line 202 *)
FlagsDown(flags) == Contains("s_down", flags)

(* variant: any resolved address is taken for a promoted replica           *)
IsAnyHost(host) == TRUE

(* line 218 *)
IsReplicaHost(host) == host \in {"redis-replica-1", "redis-replica-2"}

(* lines 220-223: the client the test write goes to                        *)
NewMasterClient(host) == IF host = "redis-replica-1" THEN "replica1" ELSE "replica2"

MF_Set ==
    WriteStep("mf185", "master", "failover_test", "mf190", <<"stopping_master">>,
              "mf259", <<"mf_error">>)

(* variant: the policy change is run without check=True                    *)
MF_UpdateNoUnchecked ==
    /\ pc = "mf190"
    /\ \E ok \in BOOLEAN : RunCmd("update_no", "redis-master", ok)
    /\ pc' = "mf191"
    /\ UNCHANGED <<log, raisedAt, ret, writes, obsVars, mainVars, checkVars>>

MF_UpdateNo ==
    DockerStep("mf190", "update_no", "redis-master", "mf191", "mf259", <<"mf_error">>)

MF_Stop ==
    DockerStep("mf191", "stop", "redis-master", "mf195", "mf259", <<"mf_error">>)

(* variant: the reply is asked for again until the master is flagged down  *)
MF_MastersUntilDetected ==
    /\ pc = "mf195"
    /\ \/ \E reply \in MastersReplies :
            /\ masters' = reply
            /\ IF reply # <<>> /\ FlagsDown(Get(ToDict(reply), "flags", ""))
                 THEN Emit(<<"detected_down", "waiting_failover">>) /\ pc' = "mf213"
                 ELSE UNCHANGED <<log, pc>>
            /\ UNCHANGED raisedAt
       \/ /\ Raise("mf195", "mf259", <<"mf_error">>)
          /\ UNCHANGED masters
    /\ UNCHANGED <<ret, cmds, writes, new_master_addr, new_master_role, pings, health, mainVars, checkVars>>

(* lines 195-209 *)
MF_Masters ==
    /\ pc = "mf195"
    /\ \/ \E reply \in MastersReplies :
            /\ masters' = reply
            /\ Emit((IF reply # <<>>
                      THEN IF FlagsDown(Get(ToDict(reply), "flags", ""))
                             THEN <<"detected_down">>
                             ELSE <<"not_yet_detected">>
                      ELSE <<>>) \o <<"waiting_failover">>)
            /\ pc' = "mf213"
            /\ UNCHANGED raisedAt
       \/ /\ Raise("mf195", "mf259", <<"mf_error">>)
          /\ UNCHANGED masters
    /\ UNCHANGED <<ret, cmds, writes, new_master_addr, new_master_role, pings, health, mainVars, checkVars>>

(* lines 213-223, 236-237, 242-243 *)
MF_GetAddr ==
    /\ pc = "mf213"
    /\ \/ \E addr \in AddrReplies, role \in Roles :
            /\ new_master_addr' = addr
            /\ new_master_role' = IF addr = <<>> THEN "none" ELSE role
            /\ IF addr # <<>>
                 THEN IF IsReplicaHost(addr[1])
                        THEN Emit(<<"failover_detected">>) /\ pc' = "mf226"
                        ELSE Emit(<<"failover_detected", "master_is_other">>) /\ pc' = "mf239"
                 ELSE Emit(<<"no_new_master">>) /\ pc' = "mf245"
            /\ UNCHANGED raisedAt
       \/ /\ Raise("mf213", "mf252", <<"failover_error">>)
          /\ UNCHANGED <<new_master_addr, new_master_role>>
    /\ UNCHANGED <<ret, cmds, writes, masters, pings, health, mainVars, checkVars>>

(* lines 226-230 *)
MF_Write ==
    WriteStep("mf226", NewMasterClient(new_master_addr[1]), "failover_test", "mf231",
              <<"new_master_accepts_writes", "restarting_original">>,
              "mf252", <<"failover_error">>)

MF_RestoreUpdate ==
    DockerStep("mf231", "update_unless_stopped", "redis-master", "mf232",
               "mf252", <<"failover_error">>)

MF_RestoreStart ==
    DockerReturn("mf232", "start", "redis-master", "TRUE", "mf252", <<"failover_error">>)

MF_OtherUpdate ==
    DockerStep("mf239", "update_unless_stopped", "redis-master", "mf240",
               "mf252", <<"failover_error">>)

MF_OtherStart ==
    DockerReturn("mf240", "start", "redis-master", "FALSE", "mf252", <<"failover_error">>)

MF_NoneUpdate ==
    DockerStep("mf245", "update_unless_stopped", "redis-master", "mf246",
               "mf252", <<"failover_error">>)

MF_NoneStart ==
    DockerReturn("mf246", "start", "redis-master", "FALSE", "mf252", <<"failover_error">>)

(* variant: the inner handler returns False without restoring             *)
MF_InnerNoRestore ==
    /\ pc = "mf252"
    /\ Return("FALSE")
    /\ UNCHANGED <<cmds, writes, log, raisedAt, obsVars, mainVars, checkVars>>

(* inner handler, lines 249-254: an error raised here is raised inside the *)
(* outer try block and reaches the outer handler.                          *)
MF_InnerUpdate ==
    DockerStep("mf252", "update_unless_stopped", "redis-master", "mf253",
               "mf259", <<"mf_error">>)

MF_InnerStart ==
    DockerReturn("mf253", "start", "redis-master", "FALSE", "mf259", <<"mf_error">>)

(* outer handler, lines 256-261: an error raised here leaves the function. *)
MF_OuterUpdate ==
    DockerStep("mf259", "update_unless_stopped", "redis-master", "mf260", "raised", <<>>)

MF_OuterStart ==
    DockerReturn("mf260", "start", "redis-master", "FALSE", "raised", <<>>)

MasterFailure ==
    \/ MF_Set \/ MF_UpdateNo \/ MF_Stop \/ MF_Masters \/ MF_GetAddr \/ MF_Write
    \/ MF_RestoreUpdate \/ MF_RestoreStart \/ MF_OtherUpdate \/ MF_OtherStart
    \/ MF_NoneUpdate \/ MF_NoneStart \/ MF_InnerUpdate \/ MF_InnerStart
    \/ MF_OuterUpdate \/ MF_OuterStart

(***************************************************************************)
(* test_network_partition (lines 263-322).                                 *)
(***************************************************************************)
(* line 295: `if num_sentinels >= quorum`                                  *)
PartitionQuorumMaintained(num_sentinels, quorum) == num_sentinels >= quorum

NP_Set ==
    WriteStep("np269", "master", "partition_test", "np274", <<"stopping_sentinel1">>,
              "np321", <<"np_error">>)

(* variant: the partition stops the second sentinel                       *)
NP_StopSentinel2 ==
    DockerStep("np274", "stop", "redis-sentinel-2", "np278", "np321", <<"np_error">>)

NP_Stop ==
    DockerStep("np274", "stop", "redis-sentinel-1", "np278", "np321", <<"np_error">>)

(* line 278 *)
NP_Ping2 ==
    /\ pc = "np278"
    /\ \/ \E p \in BOOLEAN :
            /\ pings' = <<p>>
            /\ pc' = "np279"
            /\ UNCHANGED <<log, raisedAt>>
       \/ /\ Raise("np278", "np321", <<"np_error">>)
          /\ UNCHANGED pings
    /\ UNCHANGED <<ret, cmds, writes, masters, new_master_addr, new_master_role, health, mainVars, checkVars>>

(* lines 279-282, 312-313 *)
NP_Ping3 ==
    /\ pc = "np279"
    /\ \/ \E p \in BOOLEAN :
            /\ pings' = Append(pings, p)
            /\ IF pings[1] /\ p
                 THEN Emit(<<"remaining_healthy">>) /\ pc' = "np285"
                 ELSE Emit(<<"remaining_unhealthy">>) /\ pc' = "np315"
            /\ UNCHANGED raisedAt
       \/ /\ Raise("np279", "np321", <<"np_error">>)
          /\ UNCHANGED pings
    /\ UNCHANGED <<ret, cmds, writes, masters, new_master_addr, new_master_role, health, mainVars, checkVars>>

(* lines 285-298, 302-303, 307-308; int() of a non-numeric token raises.   *)
NP_Masters ==
    /\ pc = "np285"
    /\ \/ \E reply \in MastersReplies :
            /\ masters' = reply
            /\ IF reply = <<>>
                 THEN Emit(<<"no_master_info">>) /\ pc' = "np310" /\ UNCHANGED raisedAt
                 ELSE LET master_dict == ToDict(reply)
                          q == Get(master_dict, "quorum", "0")
                          n == Get(master_dict, "num-other-sentinels", "0")
                      IN  IF ~(IsInt(q) /\ IsInt(n))
                            THEN Raise("np292", "np321", <<"np_error">>)
                            ELSE /\ IF PartitionQuorumMaintained(Int0(n), Int0(q))
                                      THEN /\ Emit(<<"quorum_maintained", "restarting_sentinel1">>)
                                           /\ pc' = "np299"
                                      ELSE /\ Emit(<<"quorum_lost">>)
                                           /\ pc' = "np305"
                                 /\ UNCHANGED raisedAt
       \/ /\ Raise("np285", "np321", <<"np_error">>)
          /\ UNCHANGED masters
    /\ UNCHANGED <<ret, cmds, writes, new_master_addr, new_master_role, pings, health, mainVars, checkVars>>

NP_MaintainedStart ==
    DockerReturn("np299", "start", "redis-sentinel-1", "TRUE", "np321", <<"np_error">>)

NP_LostStart ==
    DockerReturn("np305", "start", "redis-sentinel-1", "FALSE", "np321", <<"np_error">>)

NP_NoInfoStart ==
    DockerReturn("np310", "start", "redis-sentinel-1", "FALSE", "np321", <<"np_error">>)

NP_UnhealthyStart ==
    DockerReturn("np315", "start", "redis-sentinel-1", "FALSE", "np321", <<"np_error">>)

(* handler, lines 318-322: an error raised here leaves the function.       *)
NP_HandlerStart ==
    DockerReturn("np321", "start", "redis-sentinel-1", "FALSE", "raised", <<>>)

NetworkPartition ==
    \/ NP_Set \/ NP_Stop \/ NP_Ping2 \/ NP_Ping3 \/ NP_Masters
    \/ NP_MaintainedStart \/ NP_LostStart \/ NP_NoInfoStart \/ NP_UnhealthyStart
    \/ NP_HandlerStart

(***************************************************************************)
(* check_cluster_health (lines 87-153).  The probes are the answers of the *)
(* six nodes; the first probe that raises ends the try block, and what was *)
(* collected up to there is returned with both verdicts still False.       *)
(***************************************************************************)
MasterProbes ==
    [raises : {FALSE}, ping : {TRUE}, role : Roles, connected_slaves : 0..MaxSlaves]
    \cup {[raises |-> TRUE, ping |-> FALSE, role |-> "", connected_slaves |-> 0]}

ReplicaProbes ==
    [raises : {FALSE}, ping : {TRUE}, role : {"slave"}, master_link_status : {"up", "down"}]
    \cup {[raises |-> TRUE, ping |-> FALSE, role |-> "", master_link_status |-> ""]}

(* masters: the outcome of SENTINEL masters, which has a try of its own    *)
SentinelProbes ==
    [raises : {FALSE}, ping : BOOLEAN, masters : {"raises", "empty", "nonempty"}]
    \cup {[raises |-> TRUE, ping |-> FALSE, masters |-> "raises"]}

(* number of probes of the sequence completed before one raises           *)
Completed(probes) ==
    IF \E i \in 1..Len(probes) : probes[i].raises
      THEN (CHOOSE i \in 1..Len(probes) :
                probes[i].raises /\ \A j \in 1..(i - 1) : ~probes[j].raises) - 1
      ELSE Len(probes)

(* lines 103-107 *)
MasterEntry(m) ==
    [probed |-> TRUE, ping |-> m.ping, role |-> m.role,
     connected_slaves |-> m.connected_slaves]

(* line 92: health['master'] = False *)
NoMasterEntry == [probed |-> FALSE, ping |-> FALSE, role |-> "", connected_slaves |-> 0]

(* lines 113-118 *)
ReplicaEntries(rs) ==
    [i \in 1..Completed(rs) |->
        [replica |-> i, ping |-> rs[i].ping, role |-> rs[i].role,
         master_link_status |-> rs[i].master_link_status]]

(* lines 122-135 *)
SentinelEntries(ss) ==
    [i \in 1..Completed(ss) |->
        [sentinel |-> i, ping |-> ss[i].ping, monitoring |-> ss[i].masters = "nonempty"]]

(* line 124: the positions of the SENTINEL masters queries that raised     *)
(* into the inner `except` (lines 130-135), among the first n sentinels    *)
HcQuery == <<"hc124.s1", "hc124.s2", "hc124.s3">>

MastersQueryRaised(ss, n) == {HcQuery[i] : i \in {j \in 1..n : ss[j].masters = "raises"}}

(* variant: every sentinel has to monitor the master                       *)
SentinelMonitoringUnanimous(sentinels) ==
    /\ Len(sentinels) >= 3
    /\ \A i \in 1..Len(sentinels) : sentinels[i].ping /\ sentinels[i].monitoring

(* lines 138-142 *)
ReplicationHealthy(master, replicas) ==
    /\ master.role = "master"
    /\ master.connected_slaves >= 2
    /\ \A i \in 1..Len(replicas) : replicas[i].master_link_status = "up"

(* lines 144-148 *)
SentinelMonitoringHealthy(sentinels) ==
    /\ Len(sentinels) >= 3
    /\ \A i \in 1..Len(sentinels) : sentinels[i].ping
    /\ Cardinality({i \in 1..Len(sentinels) : sentinels[i].monitoring}) >= 2

(* variant: the verdicts are computed from what was collected, whether a   *)
(* probe raised or not                                                     *)
CheckClusterHealthVerdictsAlways(m, rs, ss) ==
    LET reachedReplicas == ~m.raises
        reachedSentinels == reachedReplicas /\ Completed(rs) = Len(rs)
        completed == reachedSentinels /\ Completed(ss) = Len(ss)
        master == IF m.raises THEN NoMasterEntry ELSE MasterEntry(m)
        replicas == IF reachedReplicas THEN ReplicaEntries(rs) ELSE <<>>
        sentinels == IF reachedSentinels THEN SentinelEntries(ss) ELSE <<>>
    IN  [master |-> master,
         replicas |-> replicas,
         sentinels |-> sentinels,
         replication |-> ReplicationHealthy(master, replicas),
         sentinel_monitoring |-> SentinelMonitoringHealthy(sentinels),
         error |-> ~completed]

CheckClusterHealth(m, rs, ss) ==
    LET reachedReplicas == ~m.raises
        reachedSentinels == reachedReplicas /\ Completed(rs) = Len(rs)
        completed == reachedSentinels /\ Completed(ss) = Len(ss)
        master == IF m.raises THEN NoMasterEntry ELSE MasterEntry(m)
        replicas == IF reachedReplicas THEN ReplicaEntries(rs) ELSE <<>>
        sentinels == IF reachedSentinels THEN SentinelEntries(ss) ELSE <<>>
    IN  [master |-> master,
         replicas |-> replicas,
         sentinels |-> sentinels,
         replication |-> completed /\ ReplicationHealthy(master, replicas),
         sentinel_monitoring |-> completed /\ SentinelMonitoringHealthy(sentinels),
         error |-> ~completed]

(***************************************************************************)
(* test_recovery_scenario (lines 373-420).  Its handler makes no call: an  *)
(* error anywhere in the try block ends in `return False`.                 *)
(***************************************************************************)
RecoveryFail(at) ==
    /\ raisedAt' = raisedAt \cup {at}
    /\ Emit(<<"recovery_error">>)
    /\ Return("FALSE")

(* docker ps -q -f name=<target> (no check=True) and the test of its output *)
PsStep(at, target, startAt, next) ==
    /\ pc = at
    /\ \/ \E running \in BOOLEAN :
            /\ RunCmd("ps", target, TRUE)
            /\ pc' = IF running THEN next ELSE startAt
            /\ UNCHANGED <<log, raisedAt, ret>>
       \/ /\ RecoveryFail(at)
          /\ UNCHANGED cmds
    /\ UNCHANGED <<writes, obsVars, mainVars, checkVars>>

RecoveryStart(at, target, next, tags) ==
    /\ pc = at
    /\ \/ /\ RunCmd("start", target, TRUE)
          /\ pc' = next
          /\ Emit(tags)
          /\ UNCHANGED <<raisedAt, ret>>
       \/ /\ RunCmd("start", target, FALSE)
          /\ RecoveryFail(at)
    /\ UNCHANGED <<writes, obsVars, mainVars, checkVars>>

RC_PsMaster == PsStep("rc382", "redis-master", "rc385", "rc389")

RC_StartMaster == RecoveryStart("rc385", "redis-master", "rc389", <<"master_restarted">>)

RC_PsSentinel1 == PsStep("rc389", "redis-sentinel-1", "rc392", "rc396")

RC_StartSentinel1 ==
    RecoveryStart("rc392", "redis-sentinel-1", "rc396", <<"sentinel1_restarted">>)

RC_PsSentinel2 == PsStep("rc396", "redis-sentinel-2", "rc399", "rc407")

RC_StartSentinel2 ==
    RecoveryStart("rc399", "redis-sentinel-2", "rc407", <<"sentinel2_restarted">>)

(* lines 409-411; final_health['master'] is False when the master probe    *)
(* raised, and subscripting it raises TypeError.                           *)
FullyRecovered(final_health) ==
    /\ final_health.master.ping
    /\ Len(final_health.replicas) >= 2
    /\ Len(final_health.sentinels) >= 3

(* lines 407-416 *)
RC_Health ==
    /\ pc = "rc407"
    /\ \E m \in MasterProbes, r1 \in ReplicaProbes, r2 \in ReplicaProbes,
          s1 \in SentinelProbes, s2 \in SentinelProbes, s3 \in SentinelProbes :
         LET final_health == CheckClusterHealth(m, <<r1, r2>>, <<s1, s2, s3>>)
             tags == <<"checking_cluster_health">> \o
                     (IF final_health.error THEN <<"health_check_error">> ELSE <<>>)
             caught == MastersQueryRaised(<<s1, s2, s3>>, Len(final_health.sentinels))
         IN  /\ health' = <<final_health>>
             /\ IF ~final_health.master.probed
                  THEN /\ raisedAt' = raisedAt \cup {"rc409"}
                       /\ Emit(tags \o <<"recovery_error">>)
                       /\ Return("FALSE")
                  ELSE /\ IF FullyRecovered(final_health)
                            THEN Emit(tags \o <<"fully_recovered">>) /\ Return("TRUE")
                            ELSE Emit(tags \o <<"not_fully_recovered">>) /\ Return("FALSE")
                       /\ raisedAt' = raisedAt \cup caught
    /\ UNCHANGED <<cmds, writes, masters, new_master_addr, new_master_role, pings, mainVars, checkVars>>

Recovery ==
    \/ RC_PsMaster \/ RC_StartMaster \/ RC_PsSentinel1 \/ RC_StartSentinel1
    \/ RC_PsSentinel2 \/ RC_StartSentinel2 \/ RC_Health

(***************************************************************************)
(* run_scenario (lines 461-477) and main (lines 531-560).                  *)
(***************************************************************************)
(* sys.argv has no argument (line 533)                                     *)
NoArg == "<no argument>"

Entry ==
    [s \in {"failover", "partition", "recovery"} |->
        CASE s = "failover" -> "mf185"
          [] s = "partition" -> "np269"
          [] s = "recovery" -> "rc382"]

(* sys.argv[1].lower() (line 538) on the arguments drawn: the one that is   *)
(* not in lower case already is `Monitor`                                  *)
Lower(s) == IF s = "Monitor" THEN "monitor" ELSE s

(* variant: a name that is not in the table runs the recovery scenario     *)
RunScenarioOrRecovery ==
    /\ pc = "main"
    /\ script = "scenarios"
    /\ argv # NoArg
    /\ Lower(argv) \notin {"all", "monitor", "stress"}
    /\ pc' = IF Lower(argv) \in DOMAIN Entry THEN Entry[Lower(argv)] ELSE "rc382"
    /\ Emit(<<"starting_scenario">>)
    /\ UNCHANGED <<ret, cmds, writes, raisedAt, obsVars, mainVars, checkVars>>

(* lines 538-547 with run_scenario, lines 463-477 *)
RunScenario ==
    /\ pc = "main"
    /\ script = "scenarios"
    /\ argv # NoArg
    /\ Lower(argv) \notin {"all", "monitor", "stress"}
    /\ IF Lower(argv) \in DOMAIN Entry
         THEN /\ pc' = Entry[Lower(argv)]
              /\ Emit(<<"starting_scenario">>)
              /\ UNCHANGED ret
         ELSE /\ Return("FALSE")
              /\ Emit(<<"starting_scenario", "unknown_scenario">>)
    /\ UNCHANGED <<cmds, writes, raisedAt, obsVars, mainVars, checkVars>>

(* variant: the status does not depend on the result                       *)
ExitStatusZero(success) == 0

(* sys.exit(0 if success else 1), line 553 *)
ExitStatus(success) == IF success THEN 0 ELSE 1

(* lines 547-553 *)
MainExit ==
    /\ pc = "returned"
    /\ script = "scenarios"
    /\ pc' = "exit"
    /\ exitCode' = ExitStatus(ret = "TRUE")
    /\ Emit(<<IF ret = "TRUE" THEN "PASSED" ELSE "FAILED">>)
    /\ UNCHANGED <<script, argv, cmds, writes, ret, raisedAt, obsVars, interrupted, checkVars>>

(* lines 558-560 *)
MainExcept ==
    /\ pc = "raised"
    /\ script = "scenarios"
    /\ pc' = "exit"
    /\ exitCode' = 1
    /\ Emit(<<"test_error">>)
    /\ UNCHANGED <<script, argv, cmds, writes, ret, raisedAt, obsVars, interrupted, checkVars>>

(* A KeyboardInterrupt is not an Exception: no `except Exception` clause   *)
(* of a scenario or of run_all_scenarios catches it, and it arrives at     *)
(* main's handler (lines 555-557) from wherever the thread is.             *)
Running == pc \notin {"main", "exit"}

MainInterrupt ==
    /\ Running
    /\ script = "scenarios"
    /\ pc' = "exit"
    /\ interrupted' = TRUE
    /\ exitCode' = 1
    /\ Emit(<<"interrupted">>)
    /\ UNCHANGED <<script, argv, cmds, writes, ret, raisedAt, obsVars, checkVars>>

Init ==
    /\ script = "scenarios"
    /\ argv \in ScenarioArgs
    /\ pc = "main"
    /\ cmds = <<>>
    /\ writes = <<>>
    /\ log = <<>>
    /\ ret = "NONE"
    /\ raisedAt = {}
    /\ masters = <<>>
    /\ new_master_addr = <<>>
    /\ new_master_role = "none"
    /\ pings = <<>>
    /\ health = <<>>
    /\ interrupted = FALSE
    /\ exitCode = -1
    /\ master_info = <<>>
    /\ slaves_reply = <<>>
    /\ slaves_info = <<>>
    /\ sentinels_reply = <<>>
    /\ sentinels_info = <<>>
    /\ info = <<>>
    /\ results = <<>>

Next ==
    \/ RunScenario
    \/ MasterFailure
    \/ NetworkPartition
    \/ Recovery
    \/ MainExit
    \/ MainExcept
    \/ MainInterrupt

Spec == Init /\ [][Next]_vars

(***************************************************************************)
(* test-sentinel-scenarios.py: the scenarios monitor and stress, and the   *)
(* `all` run (run_all_scenarios, lines 479-506).  A scenario is here one   *)
(* step that yields what the call of run_scenario yields: "TRUE", "FALSE", *)
(* or "RAISES" when an Exception leaves it.  test_normal_monitoring and    *)
(* test_stress_scenario are computed from the answers of the nodes; of     *)
(* the three scenarios that Spec runs step by step only the outcome is     *)
(* kept.                                                                   *)
(***************************************************************************)
GetAnswers == {"data", "other", "RAISES"}

MonitorAnswers == [set : {"OK", "RAISES"}, replica1 : GetAnswers, replica2 : GetAnswers]

(* test_normal_monitoring (lines 155-177) *)
NormalMonitoring(a) ==
    IF a.set = "RAISES"
      THEN [ret |-> "FALSE", writes |-> <<>>, raised |-> TRUE,
            tags |-> <<"monitoring_error">>]
      ELSE LET replicated == a.replica1 = "data" /\ a.replica2 = "data"
               raised == a.replica1 = "RAISES" \/ a.replica2 = "RAISES"
           IN  [ret |-> IF replicated THEN "TRUE" ELSE "FALSE",
                writes |-> <<[node |-> "master", key |-> "monitor_test"]>>,
                raised |-> raised,
                tags |-> <<CASE raised -> "monitoring_error"
                             [] replicated -> "data_replicated"
                             [] OTHER -> "replication_failed">>]

(* sets: the SET commands that succeed before one raises; matched: the     *)
(* keys that both replicas return with the value written                   *)
StressAnswers == [sets : 0..StressOps, reads_raise : BOOLEAN, matched : 0..StressOps]

(* variant: the threshold itself does not pass                             *)
StressPassedAbove(success_count) == success_count * 100 > StressThreshold * StressOps

(* line 453: success_rate = (success_count / len(operations)) * 100,       *)
(* line 455: success_rate >= 80; the float product is exact for the counts *)
(* 0..10, so the test is the one on the integers                           *)
StressPassed(success_count) == success_count * 100 >= StressThreshold * StressOps

(* the number in the message of line 454, "<success_count>/10 operations   *)
(* successful"                                                             *)
CountToken(n) == IF n < 10 THEN Str(n) ELSE "10"

(* test_stress_scenario (lines 422-459) *)
StressScenario(a) ==
    LET written == [i \in 1..a.sets |-> [node |-> "master", key |-> "stress_test"]]
    IN  IF a.sets < StressOps \/ a.reads_raise
          THEN [ret |-> "FALSE", writes |-> written, raised |-> TRUE,
                tags |-> <<"stress_error">>]
          ELSE [ret |-> IF StressPassed(a.matched) THEN "TRUE" ELSE "FALSE",
                writes |-> written, raised |-> FALSE,
                tags |-> <<"stress_successful", CountToken(a.matched)>>]

(* What run_scenario(s) yields to its caller.  Of failover and partition   *)
(* the outcome is kept together with the writes that were accepted: the    *)
(* write to self.master before the fault (lines 185, 269) and, in          *)
(* failover, the write to the replica the sentinel resolved (line 226),    *)
(* which a run that returns True has made.                                 *)
ScenarioRuns(s) ==
    CASE s = "monitor" -> {NormalMonitoring(a) : a \in MonitorAnswers}
      [] s = "stress" -> {StressScenario(a) : a \in StressAnswers}
      [] s = "recovery" ->
            {[ret |-> o, writes |-> <<>>, raised |-> FALSE] : o \in {"TRUE", "FALSE"}}
      [] s = "failover" ->
            LET before == [node |-> "master", key |-> "failover_test"]
                after(h) == [node |-> NewMasterClient(h), key |-> "failover_test"]
                hosts == {"redis-replica-1", "redis-replica-2"}
            IN  {[ret |-> "TRUE", writes |-> <<before, after(h)>>, raised |-> FALSE] :
                    h \in hosts}
                \cup
                {[ret |-> o, writes |-> w, raised |-> o = "RAISES"] :
                    o \in {"FALSE", "RAISES"},
                    w \in {<<>>, <<before>>} \cup {<<before, after(h)>> : h \in hosts}}
      [] OTHER ->
            LET before == [node |-> "master", key |-> "partition_test"]
            IN  {[ret |-> "TRUE", writes |-> <<before>>, raised |-> FALSE]}
                \cup
                {[ret |-> o, writes |-> w, raised |-> o = "RAISES"] :
                    o \in {"FALSE", "RAISES"}, w \in {<<>>, <<before>>}}

(* variant: the list without its last scenario                             *)
AllScenariosButStress == <<"monitor", "failover", "partition", "recovery">>

(* line 484 *)
AllScenarios == <<"monitor", "failover", "partition", "recovery", "stress">>

(* the message of line 487, "Running scenario: <scenario>"                 *)
RunningTag(s) ==
    CASE s = "monitor" -> "running_monitor"
      [] s = "failover" -> "running_failover"
      [] s = "partition" -> "running_partition"
      [] s = "recovery" -> "running_recovery"
      [] OTHER -> "running_stress"

(* main, lines 533-536: no argument *)
Usage ==
    /\ pc = "main"
    /\ script = "scenarios"
    /\ argv = NoArg
    /\ pc' = "exit"
    /\ exitCode' = 1
    /\ Emit(<<"usage">>)
    /\ UNCHANGED <<script, argv, cmds, writes, ret, raisedAt, obsVars, interrupted, checkVars>>

(* run_scenario('monitor') and run_scenario('stress') called by main       *)
RunMonitorOrStress ==
    /\ pc = "main"
    /\ script = "scenarios"
    /\ Lower(argv) \in {"monitor", "stress"}
    /\ \E r \in ScenarioRuns(Lower(argv)) :
         /\ writes' = writes \o r.writes
         /\ raisedAt' = IF r.raised THEN raisedAt \cup {Lower(argv)} ELSE raisedAt
         /\ Return(r.ret)
         /\ Emit(<<"starting_scenario">> \o r.tags)
    /\ UNCHANGED <<cmds, obsVars, mainVars, checkVars>>

(* main, line 542, and run_all_scenarios, lines 481-484 *)
AllStart ==
    /\ pc = "main"
    /\ script = "scenarios"
    /\ Lower(argv) = "all"
    /\ pc' = "all486"
    /\ Emit(<<"running_all">>)
    /\ UNCHANGED <<ret, cmds, writes, raisedAt, obsVars, mainVars, checkVars>>

(* One turn of the loop, lines 486-503: the scenario is run, its result is *)
(* stored, an Exception that left it is stored as False (lines 499-501),   *)
(* and the loop sleeps.                                                    *)
AllRunScenario ==
    /\ pc = "all486"
    /\ Len(results) < Len(AllScenarios)
    /\ LET s == AllScenarios[Len(results) + 1]
       IN  \E r \in ScenarioRuns(s) :
             /\ results' = Append(results, [scenario |-> s, passed |-> r.ret = "TRUE"])
             /\ writes' = writes \o r.writes
             /\ raisedAt' = IF r.ret = "RAISES" THEN raisedAt \cup {"all491"} ELSE raisedAt
             /\ Emit(<<RunningTag(s),
                       CASE r.ret = "TRUE" -> "scenario_passed"
                         [] r.ret = "FALSE" -> "scenario_failed"
                         [] OTHER -> "scenario_error">>)
    /\ pc' = "all486"
    /\ UNCHANGED <<ret, cmds, obsVars, mainVars, master_info, slaves_reply, slaves_info,
                   sentinels_reply, sentinels_info, info>>

(* lines 505, 543-544 and 553: the results are returned, summed up and     *)
(* turned into the exit status                                             *)
AllSummaryExit ==
    /\ pc = "all486"
    /\ Len(results) = Len(AllScenarios)
    /\ LET success == \A i \in 1..Len(results) : results[i].passed
       IN  /\ ret' = IF success THEN "TRUE" ELSE "FALSE"
           /\ exitCode' = ExitStatus(success)
           /\ Emit(<<"summary", IF success THEN "all_passed" ELSE "some_failed">>)
    /\ pc' = "exit"
    /\ UNCHANGED <<script, argv, cmds, writes, raisedAt, obsVars, interrupted, checkVars>>

InitAll ==
    /\ script = "scenarios"
    /\ argv \in {"all", "monitor", "Monitor", "stress", NoArg}
    /\ pc = "main"
    /\ cmds = <<>>
    /\ writes = <<>>
    /\ log = <<>>
    /\ ret = "NONE"
    /\ raisedAt = {}
    /\ masters = <<>>
    /\ new_master_addr = <<>>
    /\ new_master_role = "none"
    /\ pings = <<>>
    /\ health = <<>>
    /\ interrupted = FALSE
    /\ exitCode = -1
    /\ master_info = <<>>
    /\ slaves_reply = <<>>
    /\ slaves_info = <<>>
    /\ sentinels_reply = <<>>
    /\ sentinels_info = <<>>
    /\ info = <<>>
    /\ results = <<>>

NextAll ==
    \/ Usage
    \/ RunMonitorOrStress
    \/ AllStart
    \/ AllRunScenario
    \/ AllSummaryExit
    \/ MainExit
    \/ MainInterrupt

SpecAll == InitAll /\ [][NextAll]_vars

(***************************************************************************)
(* test-sentinel-cluster.py: test_sentinel_quorum (lines 361-403).         *)
(***************************************************************************)
(* variant: the sentinel that answers is not counted                      *)
TotalWithoutSelf(num_sentinels) == num_sentinels

(* line 385 *)
TotalSentinels(num_sentinels) == num_sentinels + 1

(* line 391 *)
QuorumConfigured(total_sentinels, quorum) == total_sentinels >= quorum

TestSentinelQuorum(replies) ==
    /\ pc = "sq375"
    /\ \/ \E reply \in replies :
            /\ masters' = reply
            /\ IF reply = <<>>
                 THEN /\ Emit(<<"cannot_retrieve_master">>)
                      /\ Return("FALSE")
                      /\ UNCHANGED raisedAt
                 ELSE LET master_dict == ToDict(reply)
                          q == Get(master_dict, "quorum", "0")
                          n == Get(master_dict, "num-other-sentinels", "0")
                      IN  IF ~(IsInt(q) /\ IsInt(n))
                            THEN /\ raisedAt' = raisedAt \cup {"sq383"}
                                 /\ Emit(<<"quorum_test_error">>)
                                 /\ Return("FALSE")
                            ELSE /\ IF QuorumConfigured(TotalSentinels(Int0(n)), Int0(q))
                                      THEN Emit(<<"quorum_ok">>) /\ Return("TRUE")
                                      ELSE Emit(<<"insufficient_sentinels">>) /\ Return("FALSE")
                                 /\ UNCHANGED raisedAt
       \/ /\ raisedAt' = raisedAt \cup {"sq375"}
          /\ Emit(<<"quorum_test_error">>)
          /\ Return("FALSE")
          /\ UNCHANGED masters
    /\ UNCHANGED <<cmds, writes, new_master_addr, new_master_role, pings, health, mainVars, checkVars>>

SQ_Quorum == TestSentinelQuorum(CutMastersReplies)

InitCluster ==
    /\ script = "cluster"
    /\ argv = ""
    /\ pc = "sq375"
    /\ cmds = <<>>
    /\ writes = <<>>
    /\ log = <<>>
    /\ ret = "NONE"
    /\ raisedAt = {}
    /\ masters = <<>>
    /\ new_master_addr = <<>>
    /\ new_master_role = "none"
    /\ pings = <<>>
    /\ health = <<>>
    /\ interrupted = FALSE
    /\ exitCode = -1
    /\ master_info = <<>>
    /\ slaves_reply = <<>>
    /\ slaves_info = <<>>
    /\ sentinels_reply = <<>>
    /\ sentinels_info = <<>>
    /\ info = <<>>
    /\ results = <<>>

NextCluster == SQ_Quorum

SpecCluster == InitCluster /\ [][NextCluster]_vars

(***************************************************************************)
(* test-sentinel-cluster.py: the list parse of test_slave_monitoring       *)
(* (lines 180-252) and test_sentinel_cluster_communication (254-323).      *)
(* Both walk the flat reply pair by pair, collect the pairs in a           *)
(* dictionary and close a record when they meet the key `name` while the   *)
(* dictionary holds more than one key.                                     *)
(***************************************************************************)
(* dict.get(key) of a key that is absent                                   *)
None == "<None>"

(* current_slave[key] = value                                              *)
Put(d, key, value) == [k \in DOMAIN d \cup {key} |-> IF k = key THEN value ELSE d[k]]

(* variant: the first value is read without a test of the length          *)
NameCountRaisesOnEmpty(reply) ==
    Len(reply) < 2 \/ (Len(reply) % 2 = 1 /\ reply[Len(reply)] = "name")

(* the first comprehension (lines 202, 276) reads slaves[i + 1] for every  *)
(* even i with slaves[i] == 'name': IndexError on a dangling `name`        *)
NameCountRaises(reply) == Len(reply) % 2 = 1 /\ reply[Len(reply)] = "name"

(* int(d.get(key, 0)) raises ValueError                                    *)
IntRaises(d, key) == key \in DOMAIN d /\ ~IsInt(d[key])

IntGet(d, key) == IF key \in DOMAIN d THEN Int0(d[key]) ELSE 0

(* lines 215-222 and 227-234 *)
SlaveInfo(current_slave) ==
    [name |-> Get(current_slave, "name", None),
     ip |-> Get(current_slave, "ip", None),
     port |-> IntGet(current_slave, "port"),
     flags |-> Get(current_slave, "flags", None),
     master_link_status |-> Get(current_slave, "master-link-status", None),
     slave_priority |-> IntGet(current_slave, "slave-priority")]

SlaveInfoRaises(current_slave) ==
    IntRaises(current_slave, "port") \/ IntRaises(current_slave, "slave-priority")

(* lines 289-295 and 300-306 *)
SentinelInfo(current_sentinel) ==
    [name |-> Get(current_sentinel, "name", None),
     ip |-> Get(current_sentinel, "ip", None),
     port |-> IntGet(current_sentinel, "port"),
     flags |-> Get(current_sentinel, "flags", None),
     last_ping_reply |-> IntGet(current_sentinel, "last-ping-reply")]

SentinelInfoRaises(current_sentinel) ==
    IntRaises(current_sentinel, "port") \/ IntRaises(current_sentinel, "last-ping-reply")

(* the record constructor of the function that parses: "slaves" for       *)
(* test_slave_monitoring, "sentinels" for the other                        *)
Build(kind, current) ==
    IF kind = "slaves" THEN SlaveInfo(current) ELSE SentinelInfo(current)

BuildRaises(kind, current) ==
    IF kind = "slaves" THEN SlaveInfoRaises(current) ELSE SentinelInfoRaises(current)

(* The loop of lines 207-225 (281-298) from the pair at position i on, in  *)
(* the state st = [current, out, raised]; positions are 1-based.  The pair *)
(* is stored first (line 213), the record is closed after (line 214).      *)
RECURSIVE ParseFrom(_, _, _, _)
ParseFrom(kind, reply, i, st) ==
    IF st.raised \/ i + 1 > Len(reply)
      THEN st
      ELSE LET key == reply[i]
               value == reply[i + 1]
               current == Put(st.current, key, value)
           IN  IF key = "name" /\ Cardinality(DOMAIN current) > 1
                 THEN IF BuildRaises(kind, current)
                        THEN [st EXCEPT !.raised = TRUE]
                        ELSE ParseFrom(kind, reply, i + 2,
                                       [current |-> ("name" :> value),
                                        out |-> Append(st.out, Build(kind, current)),
                                        raised |-> FALSE])
                 ELSE ParseFrom(kind, reply, i + 2, [st EXCEPT !.current = current])

(* The try block as a whole: what the function returns, and whether its    *)
(* `except Exception` clause ran.  The list holds what was appended        *)
(* before the error.                                                       *)
ParseList(kind, reply) ==
    IF NameCountRaises(reply)
      THEN [out |-> <<>>, raised |-> TRUE]
      ELSE LET st == ParseFrom(kind, reply, 1,
                               [current |-> <<>>, out |-> <<>>, raised |-> FALSE])
           IN  IF st.raised
                 THEN [out |-> st.out, raised |-> TRUE]
                 ELSE IF Cardinality(DOMAIN st.current) > 1
                        THEN IF BuildRaises(kind, st.current)
                               THEN [out |-> st.out, raised |-> TRUE]
                               ELSE [out |-> Append(st.out, Build(kind, st.current)),
                                     raised |-> FALSE]
                        ELSE [out |-> st.out, raised |-> FALSE]

(* run_all_tests, lines 438 and 446: the check passes on two records       *)
MonitoringPassed(records) == Len(records) >= 2

SlaveMonitoring(reply) == ParseList("slaves", reply)

SentinelClusterCommunication(reply) == ParseList("sentinels", reply)

(***************************************************************************)
(* The list replies the environment may give: up to MaxRecords records,    *)
(* the k-th with the name, address and port of node k, its ip or its port  *)
(* possibly missing, a numeric field possibly not a number; and the same   *)
(* replies cut after a further key.                                        *)
(***************************************************************************)
NodeNames == <<"node-1", "node-2", "node-3", "node-4">>

NodeIps == <<"10.0.0.1", "10.0.0.2", "10.0.0.3", "10.0.0.4">>

WellFormedRecord(k, flag) ==
    <<"name", NodeNames[k], "ip", NodeIps[k], "port", PortTokens[k + 1], "flags", flag>>

(* the reply that concatenates the well-formed records of nodes 1..n       *)
RECURSIVE WellFormedReply(_, _)
WellFormedReply(n, flag) ==
    IF n = 0 THEN <<>> ELSE WellFormedReply(n - 1, flag) \o WellFormedRecord(n, flag)

(* the records node k may appear as: well formed, with the further numeric *)
(* field, or with one defect                                               *)
RecordsAt(k, flag, numericKey) ==
    LET name == <<"name", NodeNames[k]>>
        ip == <<"ip", NodeIps[k]>>
        port == <<"port", PortTokens[k + 1]>>
        flags == <<"flags", flag>>
    IN  {WellFormedRecord(k, flag),
         name \o ip \o port \o flags \o <<numericKey, "1">>,
         name \o ip \o port \o flags \o <<numericKey, "x">>,
         name \o ip \o <<"port", "x">> \o flags,
         name \o port \o flags,
         name \o ip \o flags,
         name}

RECURSIVE RecordSeqs(_, _, _)
RecordSeqs(n, flag, numericKey) ==
    IF n = 0
      THEN {<<>>}
      ELSE {r \o rec : r \in RecordSeqs(n - 1, flag, numericKey),
                       rec \in RecordsAt(n, flag, numericKey)}

ListReplies(flag, numericKey) ==
    LET whole == UNION {RecordSeqs(n, flag, numericKey) : n \in 0..MaxRecords}
    IN  whole \cup {r \o <<k>> : r \in whole, k \in {"name", "ip"}}

SlavesReplies == ListReplies("slave", "slave-priority")

SentinelsReplies == ListReplies("sentinel", "last-ping-reply")

(* test_slave_monitoring as a whole (lines 196-252) *)
SM_Slaves ==
    /\ pc = "sm198"
    /\ \/ \E reply \in SlavesReplies :
            LET r == SlaveMonitoring(reply)
            IN  /\ slaves_reply' = reply
                /\ slaves_info' = r.out
                /\ IF r.raised
                     THEN /\ raisedAt' = raisedAt \cup
                                {IF NameCountRaises(reply) THEN "sm202" ELSE "sm218"}
                          /\ Emit(<<"slave_monitoring_error">>)
                     ELSE /\ Emit(<<IF Len(reply) >= 2 THEN "slave_monitoring_ok"
                                                       ELSE "expected_2_slaves">>)
                          /\ UNCHANGED raisedAt
       \/ /\ raisedAt' = raisedAt \cup {"sm198"}
          /\ Emit(<<"slave_monitoring_error">>)
          /\ UNCHANGED <<slaves_reply, slaves_info>>
    /\ pc' = "returned"
    /\ UNCHANGED <<ret, cmds, writes, obsVars, mainVars, master_info, sentinels_reply,
                   sentinels_info, info, results>>

(* test_sentinel_cluster_communication as a whole (lines 270-323) *)
SC_Sentinels ==
    /\ pc = "sc272"
    /\ \/ \E reply \in SentinelsReplies :
            LET r == SentinelClusterCommunication(reply)
            IN  /\ sentinels_reply' = reply
                /\ sentinels_info' = r.out
                /\ IF r.raised
                     THEN /\ raisedAt' = raisedAt \cup
                                {IF NameCountRaises(reply) THEN "sc276" ELSE "sc292"}
                          /\ Emit(<<"sentinel_communication_error">>)
                     ELSE /\ Emit(<<IF Len(reply) >= 2 THEN "sentinel_communication_ok"
                                                       ELSE "expected_2_sentinels">>)
                          /\ UNCHANGED raisedAt
       \/ /\ raisedAt' = raisedAt \cup {"sc272"}
          /\ Emit(<<"sentinel_communication_error">>)
          /\ UNCHANGED <<sentinels_reply, sentinels_info>>
    /\ pc' = "returned"
    /\ UNCHANGED <<ret, cmds, writes, obsVars, mainVars, master_info, slaves_reply,
                   slaves_info, info, results>>

InitDecode ==
    /\ script = "cluster"
    /\ argv = ""
    /\ pc \in {"sm198", "sc272"}
    /\ cmds = <<>>
    /\ writes = <<>>
    /\ log = <<>>
    /\ ret = "NONE"
    /\ raisedAt = {}
    /\ masters = <<>>
    /\ new_master_addr = <<>>
    /\ new_master_role = "none"
    /\ pings = <<>>
    /\ health = <<>>
    /\ interrupted = FALSE
    /\ exitCode = -1
    /\ master_info = <<>>
    /\ slaves_reply = <<>>
    /\ slaves_info = <<>>
    /\ sentinels_reply = <<>>
    /\ sentinels_info = <<>>
    /\ info = <<>>
    /\ results = <<>>

NextDecode == SM_Slaves \/ SC_Sentinels

SpecDecode == InitDecode /\ [][NextDecode]_vars

(***************************************************************************)
(* test-sentinel-cluster.py: run_all_tests (lines 405-481) and main        *)
(* (lines 483-487).  Each of the first five checks is one step: the call   *)
(* of the test method and the `if` that counts its result.  `results`      *)
(* holds one boolean for every check counted so far.                       *)
(***************************************************************************)
(* the answers of the three sentinels to ping(), in the order asked        *)
PingAnswers == {"TRUE", "FALSE", "RAISES"}

(* test_sentinel_connections (lines 101-119) *)
SentinelConnections(answers) == \A i \in 1..3 : answers[i] = "TRUE"

(* the pings made: the try block ends at the first one that raises         *)
PingsMade(answers) ==
    IF \E i \in 1..3 : answers[i] = "RAISES"
      THEN SubSeq(answers, 1, CHOOSE i \in 1..3 :
                      answers[i] = "RAISES" /\ \A j \in 1..(i - 1) : answers[j] # "RAISES")
      ELSE answers

(* SENTINEL masters as the cluster checks read it                          *)
ClusterMastersReplies ==
    {<<>>,
     <<"name", "mymaster", "ip", "redis-master", "port", "x", "flags", "master">>} \cup
    {<<"name", n, "ip", i, "port", "6379">> \o f \o <<"num-other-sentinels", "2", "quorum", "2">> :
        n \in {"mymaster", "othermaster"},
        i \in {"redis-master", "172.18.0.4"},
        f \in FieldOpt("flags", {"master", "slave"})}

(* lines 148-156; the int() calls of the literal                           *)
MasterInfoRaises(master_dict) ==
    \/ IntRaises(master_dict, "port")
    \/ IntRaises(master_dict, "num-slaves")
    \/ IntRaises(master_dict, "num-other-sentinels")
    \/ IntRaises(master_dict, "quorum")

MasterInfo(master_dict) ==
    [name |-> Get(master_dict, "name", None),
     ip |-> Get(master_dict, "ip", None),
     port |-> IntGet(master_dict, "port"),
     flags |-> Get(master_dict, "flags", None),
     num_slaves |-> IntGet(master_dict, "num-slaves"),
     num_sentinels |-> IntGet(master_dict, "num-other-sentinels"),
     quorum |-> IntGet(master_dict, "quorum")]

(* lines 165-168; `'master' in None` raises TypeError                      *)
MasterValid(mi) ==
    /\ mi.name = "mymaster"
    /\ mi.ip = "redis-master"
    /\ mi.port = 6379
    /\ mi.flags # None
    /\ Contains("master", mi.flags)

MasterValidationRaises(mi) ==
    mi.name = "mymaster" /\ mi.ip = "redis-master" /\ mi.port = 6379 /\ mi.flags = None

(* test_master_monitoring (lines 121-178): the dictionary returned, as <<>> *)
(* when it is empty, and the message printed                               *)
MasterMonitoring(reply) ==
    IF reply = <<>>
      THEN [master_info |-> <<>>, tag |-> "no_masters_found"]
      ELSE IF MasterInfoRaises(ToDict(reply))
             THEN [master_info |-> <<>>, tag |-> "master_monitoring_error"]
             ELSE LET mi == MasterInfo(ToDict(reply))
                  IN  [master_info |-> <<mi>>,
                       tag |-> IF MasterValidationRaises(mi) THEN "master_monitoring_error"
                               ELSE IF MasterValid(mi) THEN "master_monitoring_ok"
                               ELSE "master_configuration_issue"]

(* run_all_tests, line 430 *)
MasterMonitoringPassed(master_info_) ==
    master_info_ # <<>> /\ master_info_[1].name = "mymaster"

(* test_master_connectivity (lines 335-359) *)
MasterConnectivity(m) == ~m.raises /\ m.role = "master" /\ m.connected_slaves >= 2

(* the list replies of the run: 0..MaxRecords well-formed records, and two *)
(* well-formed records followed by one whose port is not a number          *)
ClusterListReplies(flag) ==
    {WellFormedReply(n, flag) : n \in 0..MaxRecords} \cup
    {WellFormedReply(2, flag) \o
        <<"name", NodeNames[3], "ip", NodeIps[3], "port", "x", "flags", flag>>}

ClusterQuorumReplies ==
    {<<>>,
     <<"name", "mymaster", "num-other-sentinels", "2", "quorum", "2">>,
     <<"name", "mymaster", "num-other-sentinels", "0", "quorum", "2">>,
     <<"name", "mymaster", "num-other-sentinels", "2", "quorum", "x">>}

Count(test, passed) ==
    /\ results' = Append(results, passed)
    /\ Emit(<<test, IF passed THEN "test_passed" ELSE "test_failed">>)

(* Test 1, lines 421-427: a failure returns False at once                  *)
RA_Connections ==
    /\ pc = "ra422"
    /\ \E answers \in [1..3 -> PingAnswers] :
         LET passed == SentinelConnections(answers)
         IN  /\ pings' = PingsMade(answers)
             /\ raisedAt' = IF \E i \in 1..3 : answers[i] = "RAISES"
                              THEN raisedAt \cup {"sc101"} ELSE raisedAt
             /\ Count("sentinel_connections", passed)
             /\ IF passed
                  THEN pc' = "ra430" /\ UNCHANGED ret
                  ELSE pc' = "cm486" /\ ret' = "FALSE"
    /\ UNCHANGED <<cmds, writes, masters, new_master_addr, new_master_role, health, mainVars,
                   master_info, slaves_reply, slaves_info, sentinels_reply, sentinels_info,
                   info>>

(* Test 2, lines 429-435 *)
RA_MasterMonitoring ==
    /\ pc = "ra430"
    /\ \/ \E reply \in ClusterMastersReplies :
            LET r == MasterMonitoring(reply)
            IN  /\ master_info' = r.master_info
                /\ raisedAt' = IF r.tag = "master_monitoring_error"
                                 THEN raisedAt \cup {"mm148"} ELSE raisedAt
                /\ Count("master_monitoring", MasterMonitoringPassed(r.master_info))
       \/ /\ raisedAt' = raisedAt \cup {"mm139"}
          /\ master_info' = <<>>
          /\ Count("master_monitoring", MasterMonitoringPassed(<<>>))
    /\ pc' = "ra438"
    /\ UNCHANGED <<ret, cmds, writes, obsVars, mainVars, slaves_reply, slaves_info,
                   sentinels_reply, sentinels_info, info>>

(* Test 3, lines 437-443 *)
RA_SlaveMonitoring ==
    /\ pc = "ra438"
    /\ \/ \E reply \in ClusterListReplies("slave") :
            LET r == SlaveMonitoring(reply)
            IN  /\ slaves_info' = r.out
                /\ raisedAt' = IF r.raised THEN raisedAt \cup {"sm218"} ELSE raisedAt
                /\ Count("slave_monitoring", MonitoringPassed(r.out))
       \/ /\ raisedAt' = raisedAt \cup {"sm198"}
          /\ slaves_info' = <<>>
          /\ Count("slave_monitoring", MonitoringPassed(<<>>))
    /\ pc' = "ra446"
    /\ UNCHANGED <<ret, cmds, writes, obsVars, mainVars, master_info, slaves_reply,
                   sentinels_reply, sentinels_info, info>>

(* Test 4, lines 445-451 *)
RA_SentinelCommunication ==
    /\ pc = "ra446"
    /\ \/ \E reply \in ClusterListReplies("sentinel") :
            LET r == SentinelClusterCommunication(reply)
            IN  /\ sentinels_info' = r.out
                /\ raisedAt' = IF r.raised THEN raisedAt \cup {"sc292"} ELSE raisedAt
                /\ Count("sentinel_communication", MonitoringPassed(r.out))
       \/ /\ raisedAt' = raisedAt \cup {"sc272"}
          /\ sentinels_info' = <<>>
          /\ Count("sentinel_communication", MonitoringPassed(<<>>))
    /\ pc' = "ra454"
    /\ UNCHANGED <<ret, cmds, writes, obsVars, mainVars, master_info, slaves_reply,
                   slaves_info, sentinels_reply, info>>

(* Test 5, lines 453-459; then the call of Test 6 (line 462)               *)
RA_MasterConnectivity ==
    /\ pc = "ra454"
    /\ \E m \in MasterProbes :
         /\ info' = IF m.raises THEN <<>>
                    ELSE <<[role |-> m.role, connected_slaves |-> m.connected_slaves]>>
         /\ raisedAt' = IF m.raises THEN raisedAt \cup {"mc337"} ELSE raisedAt
         /\ Count("master_connectivity", MasterConnectivity(m))
    /\ pc' = "sq375"
    /\ UNCHANGED <<ret, cmds, writes, obsVars, mainVars, master_info, slaves_reply,
                   slaves_info, sentinels_reply, sentinels_info>>

(* test_sentinel_quorum with the replies of the run                        *)
RA_Quorum == TestSentinelQuorum(ClusterQuorumReplies)

(* lines 461-481: Test 6 is counted and the six results are summed up      *)
RA_Summary ==
    /\ pc = "returned"
    /\ script = "cluster"
    /\ Len(results) = 5
    /\ LET all6 == Append(results, ret = "TRUE")
           tests_passed == Cardinality({i \in 1..6 : all6[i]})
       IN  /\ results' = all6
           /\ ret' = IF tests_passed = 6 THEN "TRUE" ELSE "FALSE"
           /\ Emit(<<"sentinel_quorum", IF ret = "TRUE" THEN "test_passed" ELSE "test_failed",
                     IF tests_passed = 6 THEN "all_tests_passed" ELSE "some_tests_failed">>)
    /\ pc' = "cm486"
    /\ UNCHANGED <<cmds, writes, raisedAt, obsVars, mainVars, master_info, slaves_reply,
                   slaves_info, sentinels_reply, sentinels_info, info>>

(* main, line 487 *)
CM_Exit ==
    /\ pc = "cm486"
    /\ pc' = "exit"
    /\ exitCode' = ExitStatus(ret = "TRUE")
    /\ UNCHANGED <<script, argv, cmds, writes, log, ret, raisedAt, obsVars, interrupted,
                   checkVars>>

(* main has no handler (nor has main of test-sentinel-simple.py): a        *)
(* KeyboardInterrupt ends the process with the status of an uncaught       *)
(* SIGINT                                                                  *)
SigintStatus == 130

CM_Interrupt ==
    /\ script \in {"cluster", "simple"}
    /\ pc # "exit"
    /\ pc' = "exit"
    /\ interrupted' = TRUE
    /\ exitCode' = SigintStatus
    /\ UNCHANGED <<script, argv, cmds, writes, log, ret, raisedAt, obsVars, checkVars>>

InitRunAll ==
    /\ script = "cluster"
    /\ argv = ""
    /\ pc = "ra422"
    /\ cmds = <<>>
    /\ writes = <<>>
    /\ log = <<>>
    /\ ret = "NONE"
    /\ raisedAt = {}
    /\ masters = <<>>
    /\ new_master_addr = <<>>
    /\ new_master_role = "none"
    /\ pings = <<>>
    /\ health = <<>>
    /\ interrupted = FALSE
    /\ exitCode = -1
    /\ master_info = <<>>
    /\ slaves_reply = <<>>
    /\ slaves_info = <<>>
    /\ sentinels_reply = <<>>
    /\ sentinels_info = <<>>
    /\ info = <<>>
    /\ results = <<>>

NextRunAll ==
    \/ RA_Connections
    \/ RA_MasterMonitoring
    \/ RA_SlaveMonitoring
    \/ RA_SentinelCommunication
    \/ RA_MasterConnectivity
    \/ RA_Quorum
    \/ RA_Summary
    \/ CM_Exit
    \/ CM_Interrupt

SpecRunAll == InitRunAll /\ [][NextRunAll]_vars

(***************************************************************************)
(* test-sentinel-simple.py: main (lines 196-239) runs five checks in a     *)
(* loop; `results` holds one boolean for every check run so far.           *)
(***************************************************************************)
(* test_sentinel_connections (lines 17-43): each ping has its own try      *)
SimpleConnections(answers) == \A i \in 1..3 : answers[i] = "TRUE"

(* test_master_monitoring (lines 45-83): `if masters:`                     *)
SimpleMasterMonitoring(reply) == reply # <<>>

(* lines 101 and 140: the keys `name` at the even positions of the reply   *)
NameCount(reply) == Cardinality({i \in 1..Len(reply) : i % 2 = 1 /\ reply[i] = "name"})

(* test_slave_monitoring (lines 85-122), test_sentinel_cluster (124-161)   *)
SimpleListCheck(reply) == reply # <<>> /\ NameCount(reply) >= 2

(* test_master_connectivity (lines 163-194) *)
SimpleMasterConnectivity(m) ==
    ~m.raises /\ m.ping /\ m.role = "master" /\ m.connected_slaves >= 2

(* lines 214-220 of the loop: the check at position n is run and counted   *)
SP_Count(n, test, passed) ==
    /\ script = "simple"
    /\ pc = "sp212"
    /\ Len(results) = n - 1
    /\ Count(test, passed)
    /\ UNCHANGED <<pc, ret, cmds, writes, raisedAt, masters, new_master_addr, new_master_role,
                   health, mainVars, master_info, slaves_reply, slaves_info, sentinels_reply,
                   sentinels_info, info>>

SP_Connections ==
    \E answers \in [1..3 -> PingAnswers] :
        /\ pings' = answers
        /\ SP_Count(1, "sentinel_connections", SimpleConnections(answers))

SP_MasterMonitoring ==
    /\ \/ \E reply \in ClusterMastersReplies :
            SP_Count(2, "master_monitoring", SimpleMasterMonitoring(reply))
       \/ SP_Count(2, "master_monitoring", FALSE)
    /\ UNCHANGED pings

SP_SlaveMonitoring ==
    /\ \/ \E reply \in ClusterListReplies("slave") :
            SP_Count(3, "slave_monitoring", SimpleListCheck(reply))
       \/ SP_Count(3, "slave_monitoring", FALSE)
    /\ UNCHANGED pings

SP_SentinelCluster ==
    /\ \/ \E reply \in ClusterListReplies("sentinel") :
            SP_Count(4, "sentinel_cluster", SimpleListCheck(reply))
       \/ SP_Count(4, "sentinel_cluster", FALSE)
    /\ UNCHANGED pings

SP_MasterConnectivity ==
    /\ \E m \in MasterProbes :
            SP_Count(5, "master_connectivity", SimpleMasterConnectivity(m))
    /\ UNCHANGED pings

(* lines 222-239 *)
SP_Exit ==
    /\ script = "simple"
    /\ pc = "sp212"
    /\ Len(results) = 5
    /\ LET passed == Cardinality({i \in 1..5 : results[i]})
       IN  /\ ret' = IF passed = 5 THEN "TRUE" ELSE "FALSE"
           /\ exitCode' = ExitStatus(passed = 5)
    /\ pc' = "exit"
    /\ UNCHANGED <<script, argv, cmds, writes, log, raisedAt, obsVars, interrupted, checkVars>>

InitSimple ==
    /\ script = "simple"
    /\ argv = ""
    /\ pc = "sp212"
    /\ cmds = <<>>
    /\ writes = <<>>
    /\ log = <<>>
    /\ ret = "NONE"
    /\ raisedAt = {}
    /\ masters = <<>>
    /\ new_master_addr = <<>>
    /\ new_master_role = "none"
    /\ pings = <<>>
    /\ health = <<>>
    /\ interrupted = FALSE
    /\ exitCode = -1
    /\ master_info = <<>>
    /\ slaves_reply = <<>>
    /\ slaves_info = <<>>
    /\ sentinels_reply = <<>>
    /\ sentinels_info = <<>>
    /\ info = <<>>
    /\ results = <<>>

NextSimple ==
    \/ SP_Connections
    \/ SP_MasterMonitoring
    \/ SP_SlaveMonitoring
    \/ SP_SentinelCluster
    \/ SP_MasterConnectivity
    \/ SP_Exit
    \/ CM_Interrupt

(***************************************************************************)
(* The three command lines together: every way one of the scripts can be   *)
(* started and end.                                                        *)
(***************************************************************************)
InitExit == Init \/ InitAll \/ InitRunAll \/ InitSimple

NextExit == Next \/ NextAll \/ NextRunAll \/ NextSimple

SpecExit == InitExit /\ [][NextExit]_vars

(***************************************************************************)
(* The scenario command line with every argument.  ProgramStep is a step   *)
(* of the script's single thread: the collaborator call it waits for has   *)
(* returned or raised.  An interrupt (MainInterrupt) may arrive or not.    *)
(***************************************************************************)
InitScenarios == Init \/ InitAll

NextScenarios == Next \/ NextAll

ProgramStep ==
    \/ RunScenario \/ MasterFailure \/ NetworkPartition \/ Recovery
    \/ MainExit \/ MainExcept
    \/ Usage \/ RunMonitorOrStress \/ AllStart \/ AllRunScenario \/ AllSummaryExit

SpecScenarios == InitScenarios /\ [][NextScenarios]_vars

(***************************************************************************)
(* Vocabulary of the properties.                                           *)
(***************************************************************************)
Finished == pc \in {"returned", "raised"}

FaultScenario == argv \in {"failover", "partition"}

FaultTarget == IF argv = "failover" THEN "redis-master" ELSE "redis-sentinel-1"

(* the i-th docker command stopped its container                           *)
Stopped(i) == cmds[i].op = "stop" /\ cmds[i].ok

StartedAfter(i) ==
    \E j \in (i + 1)..Len(cmds) : cmds[j].op = "start" /\ cmds[j].target = cmds[i].target

PolicyResetAfter(i) ==
    \E j \in (i + 1)..Len(cmds) :
        cmds[j].op = "update_unless_stopped" /\ cmds[j].target = cmds[i].target

RestoredAfter(i) ==
    /\ StartedAfter(i)
    /\ cmds[i].target = "redis-master" => PolicyResetAfter(i)

StartCount(target) ==
    Cardinality({i \in 1..Len(cmds) : cmds[i].op = "start" /\ cmds[i].target = target})

(* the reply holds the pair k, v at a key position                         *)
Carries(reply, k, v) ==
    \E i \in 1..(Len(reply) - 1) : i % 2 = 1 /\ reply[i] = k /\ reply[i + 1] = v

DownFlags == {"s_down,master", "s_down,o_down,master"}

FlaggedDown(reply) == \E f \in DownFlags : Carries(reply, "flags", f)

(* C1: whenever a fault scenario returns after having stopped its target   *)
(* container, whatever raised in between, a start of that container (and,  *)
(* for the master, the reset of its restart policy) was run after the stop. *)
C1_RestoredBeforeReturn ==
    (FaultScenario /\ pc = "returned") =>
        \A i \in 1..Len(cmds) : Stopped(i) => RestoredAfter(i)

C1_Witness ==
    /\ argv = "failover"
    /\ pc = "returned"
    /\ "mf226" \in raisedAt
    /\ \E i \in 1..Len(cmds) : Stopped(i) /\ RestoredAfter(i)

(* C2: in every finished run of a fault scenario, whichever step raised,   *)
(* the start of the scenario's target container was run exactly once.       *)
C2_RestoreExactlyOnce ==
    (FaultScenario /\ Finished) => StartCount(FaultTarget) = 1

(* C3: when the process exits on an operator interrupt, every container a  *)
(* scenario stopped has been started again.                                 *)
C3_InterruptRestores ==
    (FaultScenario /\ pc = "exit" /\ interrupted) =>
        \A i \in 1..Len(cmds) : Stopped(i) => StartedAfter(i)

(* C4: a stop command is run only in a state where the baseline health of  *)
(* the cluster has been evaluated and both verdicts (replication, sentinel  *)
(* monitoring) passed.                                                      *)
C4_StopOnlyAfterHealthyBaseline ==
    [][(Len(cmds') > Len(cmds) /\ cmds'[Len(cmds')].op = "stop") =>
          (health # <<>> /\ health[1].replication /\ health[1].sentinel_monitoring)]_vars

(* C5: for a master reply carrying quorum q in 1..MaxQuorum and            *)
(* num-other-sentinels n in 0..MaxKnown, test_sentinel_quorum returns True  *)
(* iff n + 1 >= q.                                                          *)
C5_QuorumCheckIff ==
    \A q \in 1..MaxQuorum, n \in 0..MaxKnown :
        (/\ script = "cluster"
         /\ pc = "returned"
         /\ Carries(masters, "quorum", Str(q))
         /\ Carries(masters, "num-other-sentinels", Str(n)))
        => (ret = "TRUE" <=> n + 1 >= q)

C5_Witness ==
    /\ script = "cluster"
    /\ pc = "returned"
    /\ Carries(masters, "quorum", Str(2))
    /\ Carries(masters, "num-other-sentinels", Str(1))
    /\ ret = "TRUE"

(* C6: in the partition scenario, with both remaining sentinels answering  *)
(* the ping and a master reply carrying quorum q and num-other-sentinels n, *)
(* the scenario passes iff n + 1 >= q.                                      *)
C6_PartitionQuorumIff ==
    \A q \in 1..MaxQuorum, n \in 0..MaxKnown :
        (/\ argv = "partition"
         /\ pc = "returned"
         /\ raisedAt = {}
         /\ pings = <<TRUE, TRUE>>
         /\ Carries(masters, "quorum", Str(q))
         /\ Carries(masters, "num-other-sentinels", Str(n)))
        => (ret = "TRUE" <=> n + 1 >= q)

(* C7: the failover scenario returns True only if the node at the resolved *)
(* address reports the role master about itself and accepted the test       *)
(* write.                                                                   *)
C7_SuccessNeedsRoleAndWrite ==
    (argv = "failover" /\ pc = "returned" /\ ret = "TRUE") =>
        /\ new_master_role = "master"
        /\ \E i \in 1..Len(writes) :
              writes[i].node \in {"replica1", "replica2"} /\ writes[i].key = "failover_test"

(* C8: when the sentinel flagged the master down and resolves the master   *)
(* to the original address redis-master, the failover scenario never        *)
(* reports success: it returns False and the process exits with 1.          *)
C8_UnchangedAddressFails ==
    (/\ argv = "failover"
     /\ FlaggedDown(masters)
     /\ new_master_addr # <<>>
     /\ new_master_addr[1] = "redis-master")
    => /\ ret # "TRUE"
       /\ pc = "returned" => ret = "FALSE"
       /\ pc = "exit" => exitCode = 1

C8_Witness ==
    /\ argv = "failover"
    /\ FlaggedDown(masters)
    /\ new_master_addr = <<"redis-master", "6379">>
    /\ pc = "returned"
    /\ ret = "FALSE"

(* The phases of a failover run as the code announces them.  The tags are  *)
(* those of the messages of lines 203-250; "detected_down" is the step     *)
(* Monitoring -> SuspectedDown, "failover_detected" the step SuspectedDown *)
(* -> FailoverInProgress, "new_master_accepts_writes" the step             *)
(* FailoverInProgress -> NewMasterElected, and `return True` after the     *)
(* restart of the old master the step NewMasterElected -> Stable.          *)
IsPhaseTag(t) ==
    t \in {"detected_down", "not_yet_detected", "failover_detected", "master_is_other",
           "no_new_master", "new_master_accepts_writes", "failover_error", "mf_error"}

Phases == SelectSeq(log, IsPhaseTag)

C10_QuorumLostFails ==
    \A q \in 1..MaxQuorum, n \in 0..MaxKnown :
        (/\ argv = "failover"
         /\ pc = "returned"
         /\ Carries(masters, "quorum", Str(q))
         /\ Carries(masters, "num-other-sentinels", Str(n))
         /\ n + 1 < q)
        => ret = "FALSE"

(***************************************************************************)
(* Vocabulary of the list parse.                                           *)
(***************************************************************************)
SlaveTags == {"slave_monitoring_ok", "expected_2_slaves", "slave_monitoring_error"}

SentinelTags ==
    {"sentinel_communication_ok", "expected_2_sentinels", "sentinel_communication_error"}

(* the function has parsed a reply it received and has returned            *)
SlavesParsed ==
    /\ pc = "returned"
    /\ \E i \in 1..Len(log) : log[i] \in SlaveTags
    /\ "sm198" \notin raisedAt

SentinelsParsed ==
    /\ pc = "returned"
    /\ \E i \in 1..Len(log) : log[i] \in SentinelTags
    /\ "sc272" \notin raisedAt

(* the k-th returned record carries the four fields of the k-th input      *)
CarriesOwnFields(rec, k, flag) ==
    /\ rec.name = NodeNames[k]
    /\ rec.ip = NodeIps[k]
    /\ rec.port = Int0(PortTokens[k + 1])
    /\ rec.flags = flag

(* the reply without its last token                                        *)
Truncated(reply) == SubSeq(reply, 1, Len(reply) - 1)

(* some record of the reply carries one of the keys with a non-integer     *)
HasBadNumber(reply, keys) ==
    \E i \in 1..(Len(reply) - 1) : i % 2 = 1 /\ reply[i] \in keys /\ ~IsInt(reply[i + 1])

ParseRaised == raisedAt \cap {"sm202", "sm218", "sc276", "sc292"} # {}

(* C13: the list parse of a well-formed reply of n >= 1 records returns n  *)
(* records, the k-th with the name, ip, port and flags of the k-th input   *)
(* record.                                                                 *)
C13_NoCrossRecordBleed ==
    \A n \in 1..MaxRecords :
        /\ (SlavesParsed /\ slaves_reply = WellFormedReply(n, "slave"))
           => /\ Len(slaves_info) = n
              /\ \A k \in 1..n : CarriesOwnFields(slaves_info[k], k, "slave")
        /\ (SentinelsParsed /\ sentinels_reply = WellFormedReply(n, "sentinel"))
           => /\ Len(sentinels_info) = n
              /\ \A k \in 1..n : CarriesOwnFields(sentinels_info[k], k, "sentinel")

(* C14: the list parse of an empty reply returns the empty list and no     *)
(* error is raised.                                                        *)
C14_EmptyReplyEmptyList ==
    /\ (SlavesParsed /\ slaves_reply = <<>>) => (slaves_info = <<>> /\ raisedAt = {})
    /\ (SentinelsParsed /\ sentinels_reply = <<>>) => (sentinels_info = <<>> /\ raisedAt = {})

C14_Witness ==
    /\ SentinelsParsed
    /\ sentinels_reply = <<>>
    /\ sentinels_info = <<>>
    /\ log = <<"expected_2_sentinels">>

(* C15: parsing a reply of odd length gives what parsing the reply without *)
(* its last token gives: the same records, the same dictionary, and no     *)
(* error that the shorter reply does not raise.                            *)
C15_DanglingKeyIgnored ==
    /\ (SlavesParsed /\ Len(slaves_reply) % 2 = 1)
       => /\ slaves_info = SlaveMonitoring(Truncated(slaves_reply)).out
          /\ ParseRaised = SlaveMonitoring(Truncated(slaves_reply)).raised
          /\ ToDict(slaves_reply) = ToDict(Truncated(slaves_reply))
    /\ (SentinelsParsed /\ Len(sentinels_reply) % 2 = 1)
       => /\ sentinels_info = SentinelClusterCommunication(Truncated(sentinels_reply)).out
          /\ ParseRaised = SentinelClusterCommunication(Truncated(sentinels_reply)).raised
          /\ ToDict(sentinels_reply) = ToDict(Truncated(sentinels_reply))

(* C16: when a record of the reply carries a non-integer port,             *)
(* slave-priority or last-ping-reply, the parse raises and the monitoring  *)
(* check of run_all_tests does not pass.                                   *)
C16_BadNumberFailsCheck ==
    /\ (SlavesParsed /\ HasBadNumber(slaves_reply, {"port", "slave-priority"}))
       => /\ ParseRaised
          /\ ~MonitoringPassed(slaves_info)
    /\ (SentinelsParsed /\ HasBadNumber(sentinels_reply, {"port", "last-ping-reply"}))
       => /\ ParseRaised
          /\ ~MonitoringPassed(sentinels_info)

(* C17: no record the list parse returns has an empty address: its ip is   *)
(* present and its port is not the default.                                *)
C17_NoEmptyAddress ==
    /\ SlavesParsed
       => \A k \in 1..Len(slaves_info) :
            slaves_info[k].ip # None /\ slaves_info[k].port # 0
    /\ SentinelsParsed
       => \A k \in 1..Len(sentinels_info) :
            sentinels_info[k].ip # None /\ sentinels_info[k].port # 0

(***************************************************************************)
(* Vocabulary of the health snapshot.                                      *)
(***************************************************************************)
Snapshot == health[1]

LinksUp(replicas) == \A i \in 1..Len(replicas) : replicas[i].master_link_status = "up"

Answering(sentinels) == {i \in 1..Len(sentinels) : sentinels[i].ping}

(* C18: the replication verdict of a snapshot is true iff its master       *)
(* reports the role master, the replica count (reported by the master, and *)
(* probed) is at least 2, and the link of every replica is up.             *)
C18_ReplicationVerdictIff ==
    health # <<>> =>
        (Snapshot.replication <=>
            /\ Snapshot.master.role = "master"
            /\ Snapshot.master.connected_slaves >= 2
            /\ Len(Snapshot.replicas) >= 2
            /\ LinksUp(Snapshot.replicas))

(* C19: the monitoring verdict of a snapshot is true iff at least 3        *)
(* sentinels answered the ping and at least 2 of them reported a non-empty *)
(* master set; a sentinel whose SENTINEL masters query raised is entered   *)
(* as not monitoring.                                                      *)
C19_MonitoringVerdictIff ==
    health # <<>> =>
        /\ Snapshot.sentinel_monitoring <=>
              /\ Cardinality(Answering(Snapshot.sentinels)) >= 3
              /\ Cardinality({i \in Answering(Snapshot.sentinels) :
                                 Snapshot.sentinels[i].monitoring}) >= 2
        /\ \A i \in 1..Len(Snapshot.sentinels) :
              HcQuery[i] \in raisedAt => ~Snapshot.sentinels[i].monitoring

(* the query of one sentinel raised and the verdict is true                *)
C19_Witness ==
    /\ health # <<>>
    /\ HcQuery[3] \in raisedAt
    /\ Snapshot.sentinel_monitoring

(***************************************************************************)
(* Vocabulary of the cluster checks.                                       *)
(***************************************************************************)
(* run_all_tests has returned *)
RunAllReturned == script = "cluster" /\ pc \in {"cm486", "exit"} /\ ~interrupted

MonitorSaysMaster == Contains("master", master_info[1].flags)

NodeSaysMaster == info[1].role = "master"

(* both views were obtained and they differ                                *)
RolesDisagree ==
    /\ master_info # <<>>
    /\ master_info[1].flags # None
    /\ info # <<>>
    /\ MonitorSaysMaster # NodeSaysMaster

(* C20: a run of the cluster checks in which the flags the sentinel        *)
(* reports for the master and the role the master reports for itself       *)
(* disagree does not return True.                                          *)
C20_RoleMismatchFails == (RunAllReturned /\ RolesDisagree) => ret # "TRUE"

(***************************************************************************)
(* Vocabulary of the exit status and of the `all` run.                     *)
(***************************************************************************)
AllTrue(bs) == \A i \in 1..Len(bs) : bs[i]

(* every check or scenario the command line selected has reported pass     *)
AllSelectedPassed ==
    CASE script = "scenarios" /\ argv = NoArg -> FALSE
      [] script = "scenarios" /\ argv = "all" ->
            Len(results) = 5 /\ \A i \in 1..5 : results[i].passed
      [] script = "scenarios" /\ argv \notin {"all", NoArg} -> ret = "TRUE"
      [] script = "cluster" -> Len(results) = 6 /\ AllTrue(results)
      [] OTHER -> Len(results) = 5 /\ AllTrue(results)

(* the scenarios of an `all` run, as the claim lists them                  *)
FiveScenarios == <<"monitor", "failover", "partition", "recovery", "stress">>

(* the `Running scenario` messages logged so far, in order                 *)
Runs ==
    SelectSeq(log, LAMBDA t : t \in {RunningTag(FiveScenarios[i]) : i \in 1..5})

C12_AllRunsFiveInOrder ==
    (script = "scenarios" /\ argv = "all") =>
        /\ Len(Runs) <= 5
        /\ \A i \in 1..Len(Runs) : Runs[i] = RunningTag(FiveScenarios[i])
        /\ Len(results) = Len(Runs)
        /\ \A i \in 1..Len(results) :
              /\ results[i].scenario = FiveScenarios[i]
              /\ log[2 * i + 1] = "scenario_error" => ~results[i].passed
        /\ (pc = "exit" /\ ~interrupted) => Len(results) = 5

(* failover raised, and the three scenarios after it were run              *)
C12_Witness ==
    /\ script = "scenarios"
    /\ argv = "all"
    /\ pc = "exit"
    /\ ~interrupted
    /\ log[5] = "scenario_error"
    /\ Len(results) = 5
    /\ ~results[2].passed
    /\ results[5].passed

(***************************************************************************)
(* Vocabulary of termination.                                              *)
(***************************************************************************)
(* the process has ended: sys.exit was reached (lines 536, 553, 557, 560)  *)
Exited == pc = "exit"

(* the positions of the thread, in the order of the source lines of the    *)
(* scenario functions, then the loop of the `all` run, then the way out    *)
PositionOrder ==
    <<"main",
      "mf185", "mf190", "mf191", "mf195", "mf213", "mf226", "mf231", "mf232", "mf239",
      "mf240", "mf245", "mf246", "mf252", "mf253", "mf259", "mf260",
      "np269", "np274", "np278", "np279", "np285", "np299", "np305", "np310", "np315",
      "np321",
      "rc382", "rc385", "rc389", "rc392", "rc396", "rc399", "rc407",
      "all486", "returned", "raised">>

Position(p) == CHOOSE i \in 1..Len(PositionOrder) : PositionOrder[i] = p

(* how far the run has come: the position, and in the loop of the `all`    *)
(* run the scenarios done; a run that has exited is as far as a run gets   *)
FurthestProgress == Len(PositionOrder) + Len(AllScenarios) + 1

Progress == IF Exited THEN FurthestProgress ELSE Position(pc) + Len(results)

(* C21: every run of the scenario command line, a single scenario or       *)
(* `all`, ends after a bounded number of steps when every collaborator     *)
(* call returns or raises: as long as the process has not exited the       *)
(* thread has a next step, and every step (an interrupt included) takes    *)
(* the run strictly forward in a finite order, so that no position is      *)
(* waited at or come back to.                                              *)
C21_EveryRunEnds ==
    /\ [](~Exited => ENABLED ProgramStep)
    /\ [][Progress' > Progress /\ Progress' <= FurthestProgress]_vars

(* a failover run in which the master stayed down (no new master was       *)
(* resolved) has ended with the verdict failed                             *)
C21_Witness ==
    /\ Exited
    /\ argv = "failover"
    /\ ~interrupted
    /\ \E i \in 1..Len(cmds) : Stopped(i)
    /\ new_master_addr = <<>>
    /\ "no_new_master" \in {log[i] : i \in 1..Len(log)}
    /\ exitCode = 1

(* C22: the master-monitoring check of run_all_tests (Test 2) is counted   *)
(* as passed only if the sentinel reported a master with the name          *)
(* mymaster, the address redis-master:6379 and flags that contain master,  *)
(* and the validation did not raise.                                       *)
C22_MasterCheckNeedsValidMaster ==
    (script = "cluster" /\ Len(results) >= 2 /\ results[2]) =>
        /\ master_info # <<>>
        /\ master_info[1].name = "mymaster"
        /\ master_info[1].ip = "redis-master"
        /\ master_info[1].port = 6379
        /\ master_info[1].flags # None
        /\ Contains("master", master_info[1].flags)
        /\ "mm148" \notin raisedAt

(***************************************************************************)
(* Vocabulary of the docker commands.                                      *)
(***************************************************************************)
(* the stop commands issued so far, whether they succeeded or not          *)
Stops == {i \in 1..Len(cmds) : cmds[i].op = "stop"}

(* the run of one scenario that the command line selected                  *)
SingleScenario == script = "scenarios" /\ argv \notin {"all", NoArg}

(* C23: in the run of a scenario at most one stop command is issued, by    *)
(* failover for redis-master and by partition for redis-sentinel-1; no     *)
(* other container is stopped, and monitor, recovery and stress (and an    *)
(* unknown name) issue no stop command.                                    *)
C23_StopOnceOwnTarget ==
    SingleScenario =>
        /\ Cardinality(Stops) <= 1
        /\ \A i \in Stops :
              \/ argv = "failover" /\ cmds[i].target = "redis-master"
              \/ argv = "partition" /\ cmds[i].target = "redis-sentinel-1"

(* a partition run that restored in its handler has ended with one stop    *)
C23_Witness ==
    /\ argv = "partition"
    /\ pc = "returned"
    /\ "np285" \in raisedAt
    /\ Cardinality(Stops) = 1
    /\ \A i \in Stops : cmds[i].target = "redis-sentinel-1" /\ cmds[i].ok

(* C24: the list parse returns as many records as the reply has `name`     *)
(* keys at its key positions, the number the function announces as found,  *)
(* whatever the reply.                                                     *)
C24_RecordsEqualNameKeys ==
    /\ SlavesParsed => Len(slaves_info) = NameCount(slaves_reply)
    /\ SentinelsParsed => Len(sentinels_info) = NameCount(sentinels_reply)

(***************************************************************************)
(* Vocabulary of the writes of an `all` run.                               *)
(***************************************************************************)
AllRun == script = "scenarios" /\ argv = "all"

(* the failover scenario of the `all` run has passed                       *)
FailoverPassed == AllRun /\ Len(results) >= 2 /\ results[2].passed

(* the clients of the replicas that accepted the write `After failover`:   *)
(* the node the sentinel resolved as the master (lines 213-226)            *)
Promoted ==
    {writes[i].node : i \in {j \in 1..Len(writes) :
        writes[j].key = "failover_test" /\ writes[j].node \in {"replica1", "replica2"}}}

(* the keys that partition (line 269) and stress (line 435) write as       *)
(* their write to the master                                               *)
LaterMasterKeys == {"partition_test", "stress_test"}

(* C25: in an `all` run whose failover scenario has passed, every write    *)
(* that the partition and stress scenarios make as their master write goes *)
(* to the node that was promoted, the holder of the master role.           *)
C25_WritesGoToCurrentMaster ==
    FailoverPassed =>
        \A i \in 1..Len(writes) :
            writes[i].key \in LaterMasterKeys => writes[i].node \in Promoted

(***************************************************************************)
(* Vocabulary of the restart policy.                                       *)
(***************************************************************************)
PolicyOps == {"update_no", "update_unless_stopped"}

DockerCmd(op, ok) == [op |-> op, target |-> "redis-master", ok |-> ok]

(* the policy commands that took effect so far                             *)
PolicyChanges == {i \in 1..Len(cmds) : cmds[i].op \in PolicyOps /\ cmds[i].ok}

(* the policy of the master's container is `no`: the last policy command   *)
(* that took effect set it so                                              *)
PolicyIsNo ==
    \E i \in PolicyChanges :
        cmds[i].op = "update_no" /\ \A j \in PolicyChanges : j <= i

(* the run ended without a normal return of the scenario: an error left    *)
(* the outer handler, or the run was interrupted                           *)
EndedAbnormally == interrupted \/ pc = "raised" \/ raisedAt \cap {"mf259", "mf260"} # {}

(* C26: in the failover scenario a stop command is issued only right after *)
(* a policy change to `no` that succeeded; when the scenario returns, the  *)
(* last two commands are the policy reset to `unless-stopped` and the      *)
(* start, both succeeded; and the policy is `no` only while the scenario   *)
(* is between the policy change and its return, unless the run ended       *)
(* abnormally.                                                             *)
C26_PolicyNoOnlyDuringFault ==
    argv = "failover" =>
        /\ \A i \in Stops : i > 1 /\ cmds[i - 1] = DockerCmd("update_no", TRUE)
        /\ pc = "returned" =>
              /\ Len(cmds) >= 2
              /\ cmds[Len(cmds) - 1] = DockerCmd("update_unless_stopped", TRUE)
              /\ cmds[Len(cmds)] = DockerCmd("start", TRUE)
        /\ PolicyIsNo => (pc # "returned" /\ (Exited => EndedAbnormally))

(* the stop failed after the policy change, and the outer handler reset    *)
(* the policy and started the master before the return                     *)
C26_Witness ==
    /\ argv = "failover"
    /\ pc = "returned"
    /\ "mf191" \in raisedAt
    /\ cmds = <<DockerCmd("update_no", TRUE), DockerCmd("stop", FALSE),
                DockerCmd("update_unless_stopped", TRUE), DockerCmd("start", TRUE)>>

(* C27: the recovery scenario returns True only if its final health        *)
(* snapshot shows replication healthy (the master reports the role master  *)
(* and at least 2 replicas, the link of every replica is up) and sentinel  *)
(* monitoring healthy (3 sentinels answer, at least 2 of them monitor the  *)
(* master).                                                                *)
C27_RecoveredOnlyIfHealthy ==
    (argv = "recovery" /\ pc = "returned" /\ ret = "TRUE") =>
        /\ health # <<>>
        /\ Snapshot.master.role = "master"
        /\ Snapshot.master.connected_slaves >= 2
        /\ LinksUp(Snapshot.replicas)
        /\ Cardinality(Answering(Snapshot.sentinels)) >= 3
        /\ Cardinality({i \in Answering(Snapshot.sentinels) :
                           Snapshot.sentinels[i].monitoring}) >= 2

StressReturned == script = "scenarios" /\ argv = "stress" /\ pc = "returned"

(* the writes to the master that succeeded                                 *)
StressWritten ==
    Cardinality({i \in 1..Len(writes) : writes[i].key = "stress_test"})

(* a write or a read raised                                                *)
StressRaised == "stress" \in raisedAt

(* the keys were read back and n of them matched on both replicas          *)
StressMatched(n) ==
    \E i \in 1..(Len(log) - 1) : log[i] = "stress_successful" /\ log[i + 1] = CountToken(n)

(* C29: the stress scenario returns True iff its 10 writes succeeded, no   *)
(* read raised, and at least 8 of the 10 keys matched on both replicas;    *)
(* when a write or a read raised it returns False.                         *)
C29_StressPassIff ==
    StressReturned =>
        /\ ret = "TRUE" <=>
              /\ StressWritten = 10
              /\ ~StressRaised
              /\ \E n \in 8..10 : StressMatched(n)
        /\ StressRaised => ret = "FALSE"
        /\ ~StressRaised => (StressWritten = 10 /\ \E n \in 0..10 : StressMatched(n))

(* exactly 8 keys matched and the scenario passed                          *)
C29_Witness ==
    /\ StressReturned
    /\ StressWritten = 10
    /\ StressMatched(8)
    /\ ret = "TRUE"

(***************************************************************************)
(* Vocabulary of the command line.                                         *)
(***************************************************************************)
KnownNames == {"monitor", "failover", "partition", "recovery", "stress", "all"}

(* the command line names a scenario that does not exist; the name is      *)
(* compared in lower case, as main reads it                                *)
UnknownName == script = "scenarios" /\ argv # NoArg /\ Lower(argv) \notin KnownNames

(* C30: a run of the scenario command line with a name that is none of     *)
(* monitor, failover, partition, recovery, stress, all issues no write and *)
(* no docker command, returns False, and exits with status 1.              *)
C30_UnknownNameNoEffect ==
    UnknownName =>
        /\ writes = <<>>
        /\ cmds = <<>>
        /\ ret # "TRUE"
        /\ pc = "returned" => ret = "FALSE"
        /\ Exited => exitCode = 1

C30_Witness ==
    /\ UnknownName
    /\ Exited
    /\ ~interrupted
    /\ log = <<"starting_scenario", "unknown_scenario", "FAILED">>
    /\ ret = "FALSE"
    /\ exitCode = 1

====
